---- MODULE Spec2Model ----
(***************************************************************************)
(* A model of aidvize/house_buy: the listing crawl (utils.imovirtual), the *)
(* dict de-duplication (utils.remove_duplicates), the detail enrichment    *)
(* (utils.intermediate_dataframe), the two drivers that chain them         *)
(* (src/rebuider.py and src/main.py) and the page count of a typology      *)
(* (utils.get_page_number), which no driver calls.                         *)
(*                                                                         *)
(* Text is a sequence of one-character strings, so that split, strip and   *)
(* replace are computed and not assumed.  A Python dict is a sequence of   *)
(* <<key, value>> pairs with pairwise distinct keys, in insertion order.   *)
(*                                                                         *)
(* Both drivers call imovirtual with fewer positional arguments than its   *)
(* signature (utils.py:233) takes; the model binds the missing start_page  *)
(* and end_page to arbitrary values of the page range.                     *)
(***************************************************************************)
EXTENDS Integers, Sequences, FiniteSets, TLC

VARIABLES
    program,     \* which driver runs: "rebuider" or "main"
    pc,          \* position of the driver
    cycles,      \* typologies still to process (main.py:56), 1 for rebuider.py
    start_page,  \* imovirtual's start_page
    end_page,    \* imovirtual's end_page
    num,         \* imovirtual's loop variable
    title,       \* imovirtual's list of titles
    links,       \* imovirtual's list of links
    reqs,        \* the requests.get calls of the imovirtual call under way
    data,        \* the dict imovirtual returns
    removed,     \* the dict remove_duplicates returns
    twice,       \* remove_duplicates applied to its own result
    df,          \* the DataFrame: a sequence of rows
    idx,         \* the row intermediate_dataframe's loop is at
    err,         \* the exception that ended the run, or "none"
    trace,       \* the driver's steps, in order
    values,      \* get_page_number's values: the texts of the li tags
    max_pages    \* what find_element_after_sequence gave get_page_number

vars == <<program, pc, cycles, start_page, end_page, num, title, links, reqs,
          data, removed, twice, df, idx, err, trace, values, max_pages>>

----------------------------------------------------------------------------
\* Bounds of the model
MaxPage == 3
MaxTyp == 2
MaxStubs == 3
MaxAddrLen == 5
MaxTokens == 5

----------------------------------------------------------------------------
\* Text and the inputs the pages are built from

T(c) == <<c>>

Titles == {T("A"), T("B")}
Hrefs == {T("x"), T("y")}

\* a span.offer-item-title element: its text and its enclosing anchor, if any
Span(t, a, h) == [text |-> t, anchored |-> a, href |-> h]
Linked(t, h) == Span(t, TRUE, h)
Bare(t) == Span(t, FALSE, <<>>)

\* what soup.find_all("span", class_="offer-item-title") can return for a page
PageBatches ==
    { <<>>,
      <<Linked(T("A"), T("x"))>>,
      <<Linked(T("B"), T("y"))>>,
      <<Linked(T("A"), T("y"))>>,
      <<Linked(T("B"), T("x"))>>,
      <<Bare(T("B"))>>,
      <<Linked(T("A"), T("x")), Linked(T("B"), T("x"))>>,
      <<Bare(T("A")), Linked(T("B"), T("y"))>>,
      <<Linked(T("B"), T("y")), Linked(T("A"), T("x"))>> }

----------------------------------------------------------------------------
\* Sequences and dicts

\* a plausible slip: the spans of a page are taken last to first
SelectTexts_reversed(spans) ==
    [i \in 1..Len(spans) |-> spans[Len(spans) + 1 - i].text]

RECURSIVE SelectTexts(_)
SelectTexts(spans) ==
    IF spans = <<>> THEN <<>>
    ELSE <<Head(spans).text>> \o SelectTexts(Tail(spans))

RECURSIVE SelectHrefs(_)
SelectHrefs(spans) ==
    IF spans = <<>> THEN <<>>
    ELSE (IF Head(spans).anchored THEN <<Head(spans).href>> ELSE <<>>)
         \o SelectHrefs(Tail(spans))

Min(a, b) == IF a < b THEN a ELSE b

\* zip(a, b): pairs up to the shorter list
Zip(a, b) == [i \in 1..Min(Len(a), Len(b)) |-> <<a[i], b[i]>>]

Keys(d) == {d[i][1] : i \in 1..Len(d)}
Items(d) == {d[i] : i \in 1..Len(d)}

\* d[k] = v of a dict: a present key keeps its position and takes the value
DictSet(d, k, v) ==
    IF k \in Keys(d)
    THEN [i \in 1..Len(d) |-> IF d[i][1] = k THEN <<k, v>> ELSE d[i]]
    ELSE Append(d, <<k, v>>)

\* {k: v for k, v in pairs}
RECURSIVE DictFrom(_, _)
DictFrom(d, pairs) ==
    IF pairs = <<>> THEN d
    ELSE DictFrom(DictSet(d, Head(pairs)[1], Head(pairs)[2]), Tail(pairs))

Swap(d) == [i \in 1..Len(d) |-> <<d[i][2], d[i][1]>>]

\* a plausible slip: one inversion only, the link->title dict is returned
remove_duplicates_once(d) == DictFrom(<<>>, Swap(d))

\* a plausible slip: the dict is returned as it came
remove_duplicates_none(d) == d

\* utils.remove_duplicates
remove_duplicates(d) ==
    LET temp == DictFrom(<<>>, Swap(d))
    IN  DictFrom(<<>>, Swap(temp))

\* a plausible slip: the pairs are kept as a list, nothing is collapsed
BuildData_list(t, l) == Zip(t, l)

\* imovirtual's last statement: {title: link for title, link in zip(title, links)}
BuildData(t, l) == DictFrom(<<>>, Zip(t, l))

----------------------------------------------------------------------------
\* Text operations (str.split, str.strip, str.replace)

\* a cell that holds no value (np.nan, utils.py:370)
NaN == <<"NaN">>

\* an element the detail page does not have (soup.find returns None)
Missing == <<"None">>

Chars == {"a", "b", ",", " "}

RECURSIVE LStrip(_)
LStrip(s) ==
    IF s # <<>> /\ Head(s) = " " THEN LStrip(Tail(s)) ELSE s

RECURSIVE RStrip(_)
RStrip(s) ==
    IF s # <<>> /\ s[Len(s)] = " " THEN RStrip(SubSeq(s, 1, Len(s) - 1)) ELSE s

\* str.strip(): leading and trailing whitespace removed
Strip(s) == RStrip(LStrip(s))

\* str.split(","): the segments between the commas; n segments for n-1 commas
RECURSIVE SplitFrom(_, _)
SplitFrom(cur, s) ==
    IF s = <<>> THEN <<cur>>
    ELSE IF Head(s) = "," THEN <<cur>> \o SplitFrom(<<>>, Tail(s))
    ELSE SplitFrom(Append(cur, Head(s)), Tail(s))

Split(s) == SplitFrom(<<>>, s)

StartsWith(s, pat) ==
    Len(s) >= Len(pat) /\ SubSeq(s, 1, Len(pat)) = pat

\* str.replace(pat, ""): every occurrence of pat removed, left to right
RECURSIVE Remove(_, _)
Remove(s, pat) ==
    IF s = <<>> THEN <<>>
    ELSE IF StartsWith(s, pat) THEN Remove(SubSeq(s, Len(pat) + 1, Len(s)), pat)
    ELSE <<Head(s)>> \o Remove(Tail(s), pat)

\* utils.py:405  .str.split(",").str[-2].str.strip()
AddressCity(a) ==
    IF a = NaN THEN NaN
    ELSE LET p == Split(a)
         IN  IF Len(p) >= 2 THEN Strip(p[Len(p) - 1]) ELSE NaN

\* utils.py:406  .str.split(",").str[-1].str.strip()
AddressState(a) ==
    IF a = NaN THEN NaN
    ELSE LET p == Split(a) IN Strip(p[Len(p)])

----------------------------------------------------------------------------
\* The DataFrame and the detail pages

\* base_dataframe's columns (utils.py:316)
BaseColumns == {"title", "url"}

\* new_columns (utils.py:355-368); the accented names are written in ASCII
NewColumns ==
    {"full_address", "prices", "prices_m2", "city", "state", "Area (m2)",
     "Certificado Energetico", "Tipo", "Ano de construcao", "N divisoes",
     "Condicao", "Acompanhamento Virtual"}

Columns == BaseColumns \cup NewColumns

\* data_mappings (utils.py:348-352): the single elements read from the page
data_mappings == {"full_address", "prices", "prices_m2"}

\* " €/m²" and " €" (utils.py:401-402), "E" for the euro sign, "2" for the exponent
PerAreaSuffix == <<" ", "E", "/", "m", "2">>
EuroSuffix == <<" ", "E">>

\* what a detail page can hold: the text of the three elements (or Missing) and
\* the label and value columns of its table; a label is a sequence of words
Detail(a, p, m, k, v) ==
    [full_address |-> a, prices |-> p, prices_m2 |-> m, keys |-> k, values |-> v]

DetailPages ==
    { Detail(<<" ", "a", ",", " ", "b">>, <<"3", " ", "E">>,
             <<"2", " ", "E", "/", "m", "2">>,
             << <<"Tipo", ":">> >>, << T("v") >>),
      Detail(<<"a">>, <<"4", " ", "E">>, <<"1", " ", "E", "/", "m", "2">>,
             << <<"Outro">>, <<"url">> >>, << T("w"), T("z") >>),
      Detail(Missing, Missing, Missing, <<>>, <<>>) }

\* base_dataframe (utils.py:316) followed by df[col] = np.nan (utils.py:369-370)
BaseRow(item) ==
    [c \in Columns |->
        IF c = "title" THEN item[1] ELSE IF c = "url" THEN item[2] ELSE NaN]

base_dataframe(items) == [i \in 1..Len(items) |-> BaseRow(items[i])]

\* str.strip(":") of a label: leading and trailing colons removed
RECURSIVE LStripColon(_)
LStripColon(k) ==
    IF k # <<>> /\ Head(k) = ":" THEN LStripColon(Tail(k)) ELSE k

RECURSIVE RStripColon(_)
RStripColon(k) ==
    IF k # <<>> /\ k[Len(k)] = ":" THEN RStripColon(SubSeq(k, 1, Len(k) - 1)) ELSE k

StripColon(k) == RStripColon(LStripColon(k))

\* extracted_data = dict(zip(keys, values)) (utils.py:387-393)
ExtractedData(d) ==
    DictFrom(<<>>, Zip([i \in 1..Len(d.keys) |-> StripColon(d.keys[i])], d.values))

\* utils.py:381-384: an element that is found sets its column
SetMapped(row, d) ==
    [c \in Columns |->
        IF c \in data_mappings /\ d[c] # Missing THEN Strip(d[c]) ELSE row[c]]

\* utils.py:396-398: a label that names a column sets that column
RECURSIVE SetExtracted(_, _)
SetExtracted(row, items) ==
    IF items = <<>> THEN row
    ELSE LET key == Head(items)[1]
             value == Head(items)[2]
         IN  SetExtracted(
               IF Len(key) = 1 /\ key[1] \in Columns
               THEN [row EXCEPT ![key[1]] = value]
               ELSE row,
               Tail(items))

\* one iteration of the loop over the rows (utils.py:373-398)
EnrichedRow(row, d) == SetExtracted(SetMapped(row, d), ExtractedData(d))

\* the .str accessor of a column works once a row holds a string: a column that
\* is np.nan in every row (or has no row) is float64 and .str raises AttributeError
HasStr(frame, c) == \E i \in 1..Len(frame) : frame[i][c] # NaN

StrRemove(v, pat) == IF v = NaN THEN NaN ELSE Remove(v, pat)

\* utils.py:405-406 on one row
AddressRow(row) ==
    [row EXCEPT !["city"] = AddressCity(row["full_address"]),
                !["state"] = AddressState(row["full_address"])]

\* utils.py:401-402 on one row
PriceRow(row) ==
    [row EXCEPT !["prices_m2"] = StrRemove(@, PerAreaSuffix),
                !["prices"] = StrRemove(@, EuroSuffix)]

\* utils.py:401-407
Cleaned(frame) == [i \in 1..Len(frame) |-> AddressRow(PriceRow(frame[i]))]

Cleanable(frame) ==
    HasStr(frame, "prices_m2") /\ HasStr(frame, "prices") /\ HasStr(frame, "full_address")

----------------------------------------------------------------------------
\* The page count of a typology (utils.py:181-230)

\* the texts of the li tags of a pagination widget, stripped: page numbers,
\* the ellipsis between them, a total with two digits
Tokens == {T("1"), T("2"), T("3"), T("0"), <<"1", "2">>, <<".", ".", ".">>}

RECURSIVE ListsUpTo(_, _)
ListsUpTo(S, n) ==
    IF n = 0 THEN {<<>>}
    ELSE ListsUpTo(S, n - 1) \cup [1..n -> S]

\* two widgets where the run 1, 2, 3 occurs twice
LongWidgets ==
    { <<T("1"), T("2"), T("3"), <<"1", "2">>, T("1"), T("2"), T("3"), T("0")>>,
      <<T("1"), T("2"), T("3"), <<".", ".", ".">>, T("1"), T("2"), T("3"), T("2")>> }

Widgets == ListsUpTo(Tokens, MaxTokens) \cup LongWidgets

Digits == {"0", "1", "2", "3", "4", "5", "6", "7", "8", "9"}

DigitValue(c) ==
    CASE c = "0" -> 0 [] c = "1" -> 1 [] c = "2" -> 2 [] c = "3" -> 3
      [] c = "4" -> 4 [] c = "5" -> 5 [] c = "6" -> 6 [] c = "7" -> 7
      [] c = "8" -> 8 [] c = "9" -> 9

RECURSIVE DecimalValue(_)
DecimalValue(t) ==
    IF t = <<>> THEN 0
    ELSE 10 * DecimalValue(SubSeq(t, 1, Len(t) - 1)) + DigitValue(t[Len(t)])

\* what a call gives: an integer, None, or the exception it raised
Returned(n) == [tag |-> "int", val |-> n]
None == [tag |-> "None", val |-> 0]
Raised(e) == [tag |-> e, val |-> 0]
NotCalled == [tag |-> "not called", val |-> 0]

\* int() of a stripped text: a decimal numeral gives its value, the empty text
\* and a text with another character raise ValueError
int(t) ==
    IF t # <<>> /\ \A i \in 1..Len(t) : t[i] \in Digits
    THEN Returned(DecimalValue(t))
    ELSE Raised("ValueError")

\* utils.py:227
sequence == <<T("1"), T("2"), T("3")>>

\* the loop of find_element_after_sequence from index i on (utils.py:194-199);
\* i counts from 0 as in the source
RECURSIVE find_element_from(_, _, _)
find_element_from(vals, seq, i) ==
    IF i >= Len(vals) - Len(seq) THEN None
    ELSE IF SubSeq(vals, i + 1, i + Len(seq)) = seq
         THEN IF i + Len(seq) < Len(vals)
              THEN int(vals[i + Len(seq) + 1])
              ELSE find_element_from(vals, seq, i + 1)
         ELSE find_element_from(vals, seq, i + 1)

find_element_after_sequence(vals, seq) == find_element_from(vals, seq, 0)

\* no widget has been read
NoWidget == values = <<>> /\ max_pages = NotCalled

----------------------------------------------------------------------------
\* The drivers (rebuider.py:104-130, main.py:24-74)

Programs == {"rebuider", "main"}

\* one requests.get of imovirtual: the page asked for, whether it answered, the
\* spans found, the lengths of title and links before it, whether a sleep followed
Request(n, ok, batch, slept) ==
    [page |-> n, ok |-> ok, batch |-> batch, tb |-> Len(title), lb |-> Len(links),
     slept |-> slept]

Init ==
    /\ NoWidget
    /\ program \in Programs
    /\ pc = "start"
    /\ cycles \in 1..MaxTyp
    /\ program = "rebuider" => cycles = 1
    /\ start_page = 1
    /\ end_page = 0
    /\ num = 1
    /\ title = <<>>
    /\ links = <<>>
    /\ reqs = <<>>
    /\ data = <<>>
    /\ removed = <<>>
    /\ twice = <<>>
    /\ df = <<>>
    /\ idx = 1
    /\ err = "none"
    /\ trace = <<>>

\* data = func(base_url, typology, search) (rebuider.py:70), func(base_url, typ)
\* (main.py:57): imovirtual is entered, title and links are empty (utils.py:247-248)
CallCrawl ==
    /\ pc = "start"
    /\ \E sp \in 1..MaxPage, ep \in 0..MaxPage :
          /\ start_page' = sp
          /\ end_page' = ep
          /\ num' = sp
    /\ title' = <<>>
    /\ links' = <<>>
    /\ reqs' = <<>>
    /\ data' = <<>>
    /\ removed' = <<>>
    /\ df' = <<>>
    /\ idx' = 1
    /\ pc' = "crawl"
    /\ trace' = Append(trace, "crawl")
    /\ UNCHANGED <<program, cycles, twice, err,
                   values, max_pages>>

\* one iteration of the loop whose request answers (utils.py:250-266): every
\* span's text goes to title, the href of its anchor, if it has one, to links;
\* an empty page is logged and the loop goes on (utils.py:256-258)
PageFetched ==
    /\ pc = "crawl"
    /\ num <= end_page
    /\ \E batch \in PageBatches :
          /\ title' = title \o SelectTexts(batch)
          /\ links' = links \o SelectHrefs(batch)
          /\ reqs' = Append(reqs, Request(num, TRUE, batch, TRUE))
    /\ num' = num + 1
    /\ UNCHANGED <<program, pc, cycles, start_page, end_page, data, removed,
                   twice, df, idx, err, trace,
                   values, max_pages>>

\* one iteration whose request raises RequestException (utils.py:268-270): it
\* is logged and the loop goes on, without the sleep
PageFailed ==
    /\ pc = "crawl"
    /\ num <= end_page
    /\ reqs' = Append(reqs, Request(num, FALSE, <<>>, FALSE))
    /\ num' = num + 1
    /\ UNCHANGED <<program, pc, cycles, start_page, end_page, title, links, data,
                   removed, twice, df, idx, err, trace,
                   values, max_pages>>

\* the range is exhausted: the dict is built and returned (utils.py:272-273)
CrawlReturn ==
    /\ pc = "crawl"
    /\ num > end_page
    /\ data' = BuildData(title, links)
    /\ title' = <<>>
    /\ links' = <<>>
    /\ pc' = "crawled"
    /\ UNCHANGED <<program, cycles, start_page, end_page, num, reqs, removed,
                   twice, df, idx, err, trace,
                   values, max_pages>>

\* imovirtual has returned and its caller goes on: the call's arguments, its
\* loop variable and the record of its requests are no longer there
FrameGone ==
    /\ start_page' = 1
    /\ end_page' = 0
    /\ num' = 1
    /\ reqs' = <<>>

\* the rest of extract (rebuider.py:71-74): dedup, save_to_json, upload_file_s3
ExtractRest ==
    /\ pc = "crawled"
    /\ program = "rebuider"
    /\ removed' = remove_duplicates(data)
    /\ trace' = trace \o <<"dedup", "save_json", "upload_json">>
    /\ pc' = "transform"
    /\ FrameGone
    /\ UNCHANGED <<program, cycles, title, links, data, twice, df, idx, err,
                   values, max_pages>>

\* transform up to the loop over the rows (rebuider.py:98-99, utils.py:355-370)
TransformStart ==
    /\ pc = "transform"
    /\ df' = base_dataframe(removed)
    /\ idx' = 1
    /\ pc' = "enrich"
    /\ UNCHANGED <<program, cycles, start_page, end_page, num, title, links, reqs,
                   data, removed, twice, err, trace,
                   values, max_pages>>

\* main's loop body up to the loop over the rows (main.py:58-60)
MainDedup ==
    /\ pc = "crawled"
    /\ program = "main"
    /\ removed' = remove_duplicates(data)
    /\ df' = base_dataframe(remove_duplicates(data))
    /\ idx' = 1
    /\ trace' = Append(trace, "dedup")
    /\ pc' = "enrich"
    /\ FrameGone
    /\ UNCHANGED <<program, cycles, title, links, data, twice, err,
                   values, max_pages>>

\* one row whose detail page answers (utils.py:373-398)
EnrichRow ==
    /\ pc = "enrich"
    /\ idx <= Len(df)
    /\ \E d \in DetailPages : df' = [df EXCEPT ![idx] = EnrichedRow(@, d)]
    /\ idx' = idx + 1
    /\ UNCHANGED <<program, pc, cycles, start_page, end_page, num, title, links,
                   reqs, data, removed, twice, err, trace,
                   values, max_pages>>

\* one row whose requests.get raises (utils.py:376): nothing catches it before
\* the driver's own except (rebuider.py:127-130, main.py:72-74), the run ends
EnrichFail ==
    /\ pc = "enrich"
    /\ idx <= Len(df)
    /\ err' = "RequestException"
    /\ pc' = "aborted"
    /\ trace' = Append(trace, "abort")
    /\ UNCHANGED <<program, cycles, start_page, end_page, num, title, links, reqs,
                   data, removed, twice, df, idx,
                   values, max_pages>>

\* the rows are done: the price suffixes go, city and state are set (utils.py:401-407)
EnrichClean ==
    /\ pc = "enrich"
    /\ idx > Len(df)
    /\ Cleanable(df)
    /\ df' = Cleaned(df)
    /\ pc' = "enriched"
    /\ trace' = Append(trace, "enriched")
    /\ UNCHANGED <<program, cycles, start_page, end_page, num, title, links, reqs,
                   data, removed, twice, idx, err,
                   values, max_pages>>

\* the rows are done and a column read through .str holds no string
\* (utils.py:401-406): AttributeError, the run ends
EnrichCleanFault ==
    /\ pc = "enrich"
    /\ idx > Len(df)
    /\ ~Cleanable(df)
    /\ err' = "AttributeError"
    /\ pc' = "aborted"
    /\ trace' = Append(trace, "abort")
    /\ UNCHANGED <<program, cycles, start_page, end_page, num, title, links, reqs,
                   data, removed, twice, df, idx,
                   values, max_pages>>

\* a plausible slip: the upload is issued before the file is written
TransformRest_early ==
    /\ pc = "enriched"
    /\ program = "rebuider"
    /\ trace' = trace \o <<"upload_parquet", "save_parquet">>
    /\ pc' = "done"
    /\ cycles' = 0
    /\ UNCHANGED <<program, start_page, end_page, num, title, links, reqs, data,
                   removed, twice, df, idx, err,
                   values, max_pages>>

\* the rest of transform (rebuider.py:100-101): save_to_parquet, upload_file_s3
TransformRest ==
    /\ pc = "enriched"
    /\ program = "rebuider"
    /\ trace' = trace \o <<"save_parquet", "upload_parquet">>
    /\ pc' = "done"
    /\ cycles' = 0
    /\ UNCHANGED <<program, start_page, end_page, num, title, links, reqs, data,
                   removed, twice, df, idx, err,
                   values, max_pages>>

\* the rest of main's loop body (main.py:61-62), then the next typology
MainSave ==
    /\ pc = "enriched"
    /\ program = "main"
    /\ trace' = trace \o <<"save_json", "save_parquet">>
    /\ cycles' = cycles - 1
    /\ pc' = IF cycles > 1 THEN "start" ELSE "upload"
    /\ UNCHANGED <<program, start_page, end_page, num, title, links, reqs, data,
                   removed, twice, df, idx, err,
                   values, max_pages>>

\* after the loop (main.py:63-64): both uploads
MainUpload ==
    /\ pc = "upload"
    /\ trace' = trace \o <<"upload_json", "upload_parquet">>
    /\ pc' = "done"
    /\ UNCHANGED <<program, cycles, start_page, end_page, num, title, links, reqs,
                   data, removed, twice, df, idx, err,
                   values, max_pages>>

Next ==
    \/ CallCrawl
    \/ PageFetched
    \/ PageFailed
    \/ CrawlReturn
    \/ ExtractRest
    \/ TransformStart
    \/ MainDedup
    \/ EnrichRow
    \/ EnrichFail
    \/ EnrichClean
    \/ EnrichCleanFault
    \/ TransformRest
    \/ MainSave
    \/ MainUpload

Spec == Init /\ [][Next]_vars

----------------------------------------------------------------------------
\* remove_duplicates on its own: every list of stubs of up to MaxStubs entries

StubTitles == Titles \cup {T("C")}
StubHrefs == Hrefs \cup {T("z")}

Idle ==
    /\ program = "rebuider"
    /\ cycles = 1
    /\ start_page = 1
    /\ end_page = 0
    /\ num = 1
    /\ reqs = <<>>
    /\ idx = 1
    /\ err = "none"
    /\ trace = <<>>

InitDedup ==
    /\ Idle
    /\ NoWidget
    /\ pc = "zip"
    /\ \E n \in 0..MaxStubs :
          /\ title \in [1..n -> StubTitles]
          /\ links \in [1..n -> StubHrefs]
    /\ data = <<>>
    /\ removed = <<>>
    /\ twice = <<>>
    /\ df = <<>>

\* utils.py:272
DedupBuild ==
    /\ pc = "zip"
    /\ data' = BuildData(title, links)
    /\ pc' = "built"
    /\ UNCHANGED <<program, cycles, start_page, end_page, num, title, links, reqs,
                   removed, twice, df, idx, err, trace,
                   values, max_pages>>

\* removed = remove_duplicates(data) (rebuider.py:71)
DedupOnce ==
    /\ pc = "built"
    /\ removed' = remove_duplicates(data)
    /\ pc' = "deduped"
    /\ UNCHANGED <<program, cycles, start_page, end_page, num, title, links, reqs,
                   data, twice, df, idx, err, trace,
                   values, max_pages>>

\* remove_duplicates applied to what it returned
DedupTwice ==
    /\ pc = "deduped"
    /\ twice' = remove_duplicates(removed)
    /\ pc' = "deduped_twice"
    /\ UNCHANGED <<program, cycles, start_page, end_page, num, title, links, reqs,
                   data, removed, df, idx, err, trace,
                   values, max_pages>>

NextDedup ==
    \/ DedupBuild
    \/ DedupOnce
    \/ DedupTwice

SpecDedup == InitDedup /\ [][NextDedup]_vars

----------------------------------------------------------------------------
\* The address processing on its own: every address of up to MaxAddrLen characters

RECURSIVE TextsUpTo(_)
TextsUpTo(n) ==
    IF n = 0 THEN {<<>>}
    ELSE TextsUpTo(n - 1) \cup [1..n -> Chars]

InitAddress ==
    /\ Idle
    /\ NoWidget
    /\ pc = "address"
    /\ title = <<>>
    /\ links = <<>>
    /\ data = <<>>
    /\ removed = <<>>
    /\ twice = <<>>
    /\ \E a \in TextsUpTo(MaxAddrLen) \cup {NaN} :
          df = << [BaseRow(<<T("A"), T("x")>>) EXCEPT !["full_address"] = a] >>

\* utils.py:404-407
AddressProcessing ==
    /\ pc = "address"
    /\ df' = [i \in 1..Len(df) |-> AddressRow(df[i])]
    /\ pc' = "address_done"
    /\ UNCHANGED <<program, cycles, start_page, end_page, num, title, links, reqs,
                   data, removed, twice, idx, err, trace,
                   values, max_pages>>

NextAddress == AddressProcessing

SpecAddress == InitAddress /\ [][NextAddress]_vars

----------------------------------------------------------------------------
\* get_page_number on its own: every widget of up to MaxTokens texts

InitPages ==
    /\ Idle
    /\ pc = "pages"
    /\ title = <<>>
    /\ links = <<>>
    /\ data = <<>>
    /\ removed = <<>>
    /\ twice = <<>>
    /\ df = <<>>
    /\ values \in Widgets
    /\ max_pages = NotCalled

\* utils.py:226-230
GetPageNumber ==
    /\ pc = "pages"
    /\ max_pages' = find_element_after_sequence(values, sequence)
    /\ pc' = "pages_done"
    /\ UNCHANGED <<program, cycles, start_page, end_page, num, title, links, reqs,
                   data, removed, twice, df, idx, err, trace, values>>

NextPages == GetPageNumber

SpecPages == InitPages /\ [][NextPages]_vars

----------------------------------------------------------------------------
\* Properties of the crawl

RECURSIVE TextsOf(_)
TextsOf(rs) ==
    IF rs = <<>> THEN <<>>
    ELSE SelectTexts(Head(rs).batch) \o TextsOf(Tail(rs))

RECURSIVE HrefsOf(_)
HrefsOf(rs) ==
    IF rs = <<>> THEN <<>>
    ELSE SelectHrefs(Head(rs).batch) \o HrefsOf(Tail(rs))

\* what a crawl that made the requests rs, and no other, returns
CollectedFrom(rs) == DictFrom(<<>>, Zip(TextsOf(rs), HrefsOf(rs)))

\* the links of the anchors of one answered page
LinkSet(r) == {r.batch[j].href : j \in {k \in 1..Len(r.batch) : r.batch[k].anchored}}

\* the spans of one answered page
SpanSet(r) == {r.batch[j] : j \in 1..Len(r.batch)}

EmptyPage(r) == r.ok /\ r.batch = <<>>

\* C1: the crawl stops at the first answered page with no stub: no later page is
\* requested, and what is returned is what the pages before it gave
C1_EmptyPageStops ==
    \A i \in 1..Len(reqs) :
        (EmptyPage(reqs[i]) /\ \A j \in 1..(i - 1) : ~EmptyPage(reqs[j]))
        => /\ i = Len(reqs)
           /\ pc = "crawled" => data = CollectedFrom(SubSeq(reqs, 1, i - 1))

\* C2: a request that fails ends the crawl: no later page is requested, and what
\* is returned is what the pages before it gave
C2_FetchFailureStops ==
    \A i \in 1..Len(reqs) :
        (~reqs[i].ok /\ \A j \in 1..(i - 1) : reqs[j].ok)
        => /\ i = Len(reqs)
           /\ pc = "crawled" => data = CollectedFrom(SubSeq(reqs, 1, i - 1))

\* C3: a page whose links are a non-empty subset of those of the page before it
\* ends the crawl, and what is returned holds no stub twice
C3_RepeatPageStops ==
    \A i \in 2..Len(reqs) :
        (/\ reqs[i].ok
         /\ reqs[i - 1].ok
         /\ LinkSet(reqs[i]) # {}
         /\ LinkSet(reqs[i]) \subseteq LinkSet(reqs[i - 1]))
        => /\ i = Len(reqs)
           /\ pc = "crawled" =>
                \A a, b \in 1..Len(data) : data[a] = data[b] => a = b

\* C6: every (title, link) pair returned is the title of a span with the link of
\* that span's own anchor
C6_StubPairing ==
    pc = "crawled" =>
        \A item \in Items(data) :
            \E i \in 1..Len(reqs) :
                \E sp \in SpanSet(reqs[i]) :
                    sp.anchored /\ sp.text = item[1] /\ sp.href = item[2]

----------------------------------------------------------------------------
\* Properties of the enrichment and of the drivers

\* C5: a detail request that fails does not end the run: the other rows are
\* still enriched
C5_PartialEnrichment ==
    err = "RequestException" => pc # "aborted"

UploadEvents == {"upload_json", "upload_parquet"}

\* event e occurs before position i, after the last "crawl" before i
InCycleBefore(i, e) ==
    \E j \in 1..(i - 1) :
        /\ trace[j] = e
        /\ \A k \in j..(i - 1) : trace[k] # "crawl"

Occurs(e) == \E i \in 1..Len(trace) : trace[i] = e

----------------------------------------------------------------------------
\* Properties of remove_duplicates

Stubs == Zip(title, links)

LinksIn(st) == {st[i][2] : i \in 1..Len(st)}
TitlesIn(st) == {st[i][1] : i \in 1..Len(st)}

FirstAt(st, col, v) == CHOOSE i \in 1..Len(st) :
    st[i][col] = v /\ \A j \in 1..(i - 1) : st[j][col] # v

LastAt(st, col, v) == CHOOSE i \in 1..Len(st) :
    st[i][col] = v /\ \A j \in (i + 1)..Len(st) : st[j][col] # v

\* the algorithm of the specification on a list of stubs: link -> title with
\* the last title of each link, the links in the order they first occur; then
\* title -> link with, for each title, the last of its links in that order
SpecDedupe(st) ==
    LET titleOf(l) == st[LastAt(st, 2, l)][1]
    IN  { <<titleOf(l), l>> : l \in
            { m \in LinksIn(st) :
                \A o \in LinksIn(st) :
                    titleOf(o) = titleOf(m) => FirstAt(st, 2, o) <= FirstAt(st, 2, m) } }

\* the stubs with one entry for each title: where the title first occurs, with
\* the link of its last occurrence
CollapsedByTitle(st) ==
    LET ts == TitlesIn(st)
        rank(t) == Cardinality({u \in ts : FirstAt(st, 1, u) < FirstAt(st, 1, t)}) + 1
    IN  [k \in 1..Cardinality(ts) |->
            LET t == CHOOSE u \in ts : rank(u) = k
            IN  <<t, st[LastAt(st, 1, t)][2]>>]

Deduped == pc \in {"deduped", "deduped_twice"}

\* C4 as stated: the program's result is that of the specified algorithm on the
\* list of stubs
C4_DoubleInversion ==
    Deduped => Items(removed) = SpecDedupe(Stubs)

\* C4 as amended: the program's result is that of the specified algorithm on the
\* stubs collapsed by title, and has one entry for each of its pairs
C4_DoubleInversionOfDict ==
    Deduped =>
        /\ Items(removed) = SpecDedupe(CollapsedByTitle(Stubs))
        /\ Len(removed) = Cardinality(Items(removed))

\* [(A,x),(B,x),(A,y)] has given {A: y, B: x}
C4_Witness ==
    /\ Deduped
    /\ Stubs = << <<T("A"), T("x")>>, <<T("B"), T("x")>>, <<T("A"), T("y")>> >>
    /\ Items(removed) = { <<T("A"), T("y")>>, <<T("B"), T("x")>> }

NoRepeat(d, col) == \A i, j \in 1..Len(d) : d[i][col] = d[j][col] => i = j

SameDict(d, e) == Items(d) = Items(e) /\ Len(d) = Len(e)

\* C7: remove_duplicates applied twice gives what it gives once, and a dict
\* with no repeated link is returned as it is
C7_DedupIdempotent ==
    /\ pc = "deduped_twice" => SameDict(twice, removed)
    /\ (Deduped /\ NoRepeat(data, 2)) => SameDict(removed, data)

\* a dict with a repeated link has been deduplicated twice
C7_Witness ==
    /\ pc = "deduped_twice"
    /\ ~NoRepeat(data, 2)
    /\ Len(removed) >= 2
    /\ twice = removed

\* C9: the result has pairwise distinct titles and pairwise distinct links, and
\* each of its pairs is a pair of the input
C9_DedupOneToOne ==
    Deduped =>
        /\ NoRepeat(removed, 1)
        /\ NoRepeat(removed, 2)
        /\ Items(removed) \subseteq Items(data)

\* a dict with a repeated link has been deduplicated
C9_Witness ==
    /\ pc = "deduped"
    /\ ~NoRepeat(data, 2)
    /\ Len(removed) >= 2
    /\ Len(removed) < Len(data)

----------------------------------------------------------------------------
\* Properties of the address processing

Address == df[1]["full_address"]

Commas(a) == {i \in 1..Len(a) : a[i] = ","}

Max(S) == CHOOSE x \in S : \A y \in S : y <= x

\* a text without its leading and trailing blanks
Trimmed(s) ==
    LET solid == {i \in 1..Len(s) : s[i] # " "}
    IN  IF solid = {} THEN <<>>
        ELSE SubSeq(s, CHOOSE x \in solid : \A y \in solid : x <= y, Max(solid))

\* the text after the last comma, and the text between the last two commas (or
\* from the start, if there is one comma)
LastSegment(a) == SubSeq(a, Max(Commas(a)) + 1, Len(a))
SecondLastSegment(a) ==
    LET last == Max(Commas(a))
        before == {i \in Commas(a) : i < last}
    IN  SubSeq(a, IF before = {} THEN 1 ELSE Max(before) + 1, last - 1)

\* a cell with no value, or with the empty text
Absent(v) == v = NaN \/ v = <<>>

\* C8: city and state are the last two comma-separated segments, trimmed; an
\* address with fewer than two segments leaves both absent
C8_AddressSplit ==
    (pc = "address_done" /\ Address # NaN) =>
        IF Commas(Address) # {}
        THEN /\ df[1]["city"] = Trimmed(SecondLastSegment(Address))
             /\ df[1]["state"] = Trimmed(LastSegment(Address))
        ELSE /\ Absent(df[1]["city"])
             /\ Absent(df[1]["state"])

----------------------------------------------------------------------------
\* Order of the requests and of what they collect

Crawling == pc \in {"crawl", "crawled"}

\* the positions of the spans of a batch that have an anchor
AnchoredAt(batch) == {j \in 1..Len(batch) : batch[j].anchored}

\* C11: the pages requested are start_page, start_page + 1, ... in that order,
\* each once and none above end_page; the titles and links of a page are
\* appended after those of the pages before it, in document order
C11_PageOrder ==
    Crawling =>
        /\ \A i \in 1..Len(reqs) :
              /\ reqs[i].page = start_page + i - 1
              /\ reqs[i].page <= end_page
        /\ \A i, j \in 1..Len(reqs) : i < j => reqs[i].page < reqs[j].page
        /\ \A i \in 1..(Len(reqs) - 1) :
              /\ reqs[i + 1].tb = reqs[i].tb + Len(reqs[i].batch)
              /\ reqs[i + 1].lb = reqs[i].lb + Cardinality(AnchoredAt(reqs[i].batch))
        /\ pc = "crawl" =>
              \A i \in 1..Len(reqs) :
                  LET batch == reqs[i].batch
                  IN  /\ \A j \in 1..Len(batch) :
                            title[reqs[i].tb + j] = batch[j].text
                      /\ \A j \in AnchoredAt(batch) :
                            links[reqs[i].lb
                                  + Cardinality({k \in AnchoredAt(batch) : k <= j})]
                              = batch[j].href
        /\ (pc = "crawl" /\ reqs # <<>>) =>
              /\ Len(title) = reqs[Len(reqs)].tb + Len(reqs[Len(reqs)].batch)
              /\ Len(links) = reqs[Len(reqs)].lb
                              + Cardinality(AnchoredAt(reqs[Len(reqs)].batch))

\* three pages have been requested, the second one held two spans
C11_Witness ==
    /\ pc = "crawl"
    /\ Len(reqs) = 3
    /\ start_page = 1
    /\ Len(reqs[2].batch) = 2
    /\ Len(title) >= 3

\* C13: every page request that is followed by another one of the same crawl
\* was followed by the sleep first, whatever its outcome
C13_SleepBetweenRequests ==
    Crawling => \A i \in 1..(Len(reqs) - 1) : reqs[i].slept

----------------------------------------------------------------------------
\* Frame of the enrichment

\* C14: while and after intermediate_dataframe fills the rows, every row keeps
\* the title and the url of the deduplicated listing it was built from, and
\* holds the columns of the fixed schema and no other
C14_EnrichmentFrame ==
    pc \in {"enrich", "enriched"} =>
        /\ Len(df) = Len(removed)
        /\ \A i \in 1..Len(df) :
              /\ DOMAIN df[i] = Columns
              /\ df[i]["title"] = removed[i][1]
              /\ df[i]["url"] = removed[i][2]

----------------------------------------------------------------------------
\* Properties of the page count

\* the positions where the run 1, 2, 3 starts in the widget
RunsAt(vals) ==
    {i \in 1..(Len(vals) - Len(sequence) + 1) :
        \A k \in 1..Len(sequence) : vals[i + k - 1] = sequence[k]}

FirstRun(vals) == CHOOSE i \in RunsAt(vals) : \A j \in RunsAt(vals) : i <= j

\* the first run is there and a text follows it
Followed(vals) ==
    RunsAt(vals) # {} /\ FirstRun(vals) + Len(sequence) <= Len(vals)

\* C12: the page count is the integer value of the text after the first run
\* 1, 2, 3; it is None when there is no run or nothing after it; the call never
\* ends in a fault
C12_PageCountParse ==
    pc = "pages_done" =>
        /\ max_pages.tag \in {"int", "None"}
        /\ Followed(values) =>
              /\ max_pages.tag = "int"
              /\ max_pages.val
                   = DecimalValue(values[FirstRun(values) + Len(sequence)])
        /\ ~Followed(values) => max_pages = None

====
